---- MODULE Spec2Model ----
(***************************************************************************)
(* perplexity-ask HTTP/SSE bridge (src/perplexity-ask/index.ts).           *)
(*                                                                         *)
(* The process is a single-threaded event loop.  Every action below is one *)
(* run-to-completion step of one callback: an Express route handler up to  *)
(* its first suspension, the continuation of an await, or an event         *)
(* listener.  SSEServerTransport and Server come from the MCP SDK; the     *)
(* model keeps the part of their state the handlers of index.ts observe    *)
(* (the transport's session id and whether its SSE response is attached).  *)
(***************************************************************************)
EXTENDS Integers, Sequences, FiniteSets, TLC

\* ------------------------------------------------------------------ bounds
MaxSessions == 2          \* GET /sse requests served in one run
MaxRequests == 2          \* POST /messages requests dispatched in one run

\* --------------------------------------------------------- session identifiers
\* req.query.sessionId absent (or the empty string): falsy at line 355.
NoSessionId == 0
\* A sessionId that names a property every object literal inherits
\* ("constructor", "toString", "__proto__", ...): never a registered key.
ProtoKey == -1

TransportNos == 1..MaxSessions

\* transport.sessionId of the n-th SSEServerTransport constructed: the SDK
\* draws it with randomUUID(), modelled as a value no other transport gets.
SessionIdOf_Colliding(n) ==
    1
SessionIdOf(n) ==
    n

SessionIds == {SessionIdOf(n) : n \in TransportNos}
\* What a client may put in ?sessionId=: nothing, an inherited property name,
\* or any identifier (minted already, closed already, or never minted).
PostIds == {NoSessionId, ProtoKey} \cup (1..MaxSessions)

VARIABLES
    proc,        \* "loading" | "running" | "exited" (process.exit(0), line 410)
                 \* | "exit1" (process.exit(1), lines 127, 390) | "crashed"
    apiKey,      \* process.env.PERPLEXITY_API_KEY: "unset" | "empty" | "set"
    listening,   \* app.listen() has been called (line 381)
    nextId,      \* number of SSEServerTransport objects constructed so far
    transports,  \* the registry of line 312: session id -> transport number
    res,         \* per transport: its /sse response, "none"|"open"|"ended"|"closed"
    sse,         \* per transport: the SDK's _sseResponse is attached
    sweep,       \* the SIGINT handler: pc, keys left to visit, key awaited
    closeTried,  \* ids whose transport.close() the sweep has called
    closeFailed, \* ids whose transport.close() threw in the sweep
    reqs,        \* the requests suspended on the upstream call, oldest first
    http,        \* the HTTP response the last callback wrote (NoHttp: none)
    wrote,       \* the result the last callback had the SDK write (NoWrite: none)
    hpc,         \* call-tool handler run on its own: "off"|"start"|"awaiting"|"done"
    hreq,        \* ... its request.params
    hcalls,      \* ... the upstream invocations it made
    hresp,       \* ... what the upstream call settled with
    hres         \* ... the results it returned

sessVars == <<proc, nextId, transports, res, sse, sweep, closeTried, closeFailed, reqs, http, wrote>>
toolVars == <<hpc, hreq, hcalls, hresp, hres>>
bootVars == <<apiKey, listening>>
vars == <<proc, apiKey, listening, nextId, transports, res, sse, sweep, closeTried, closeFailed,
          reqs, http, wrote, hpc, hreq, hcalls, hresp, hres>>

IdleSweep == [pc |-> "idle", keys |-> <<>>, cur |-> NoSessionId, outcome |-> "none",
              snap |-> {}]

Alive == proc = "running"

\* ------------------------------------------------------------ the registry
\* transports[id] = transport (line 330): overwrites whatever the key held.
Register(reg, id, n) ==
    [k \in (DOMAIN reg) \cup {id} |-> IF k = id THEN n ELSE reg[k]]

\* delete transports[id] (lines 335, 403): a no-op for an absent key.
Unregister_Noop(reg, id) ==
    reg
Unregister(reg, id) ==
    [k \in (DOMAIN reg) \ {id} |-> reg[k]]

\* transports[sessionId] (line 360) on the object literal of line 312: an own
\* key gives its transport, an inherited property name gives the inherited
\* (truthy) value, anything else undefined.
Lookup(x) ==
    IF x \in DOMAIN transports THEN "transport"
    ELSE IF x = ProtoKey THEN "inherited"
    ELSE "undefined"

\* --------------------------------------------------- the call-tool handler
\* JavaScript strings are sequences of pieces, so that concatenation and
\* "contains" are computed; a value is a string or undefined.
Str(s) == [t |-> "string", s |-> s]
Undefined == [t |-> "undefined", s |-> <<>>]

\* String(v) / `${v}`, and v += string: undefined prints as "undefined".
Show(v) ==
    IF v.t = "string" THEN v.s ELSE <<"undefined">>

KnownTools == {"perplexity_ask", "perplexity_research", "perplexity_reason"}
UnknownTools == {"perplexity_search"}
ToolNameInputs == KnownTools \cup UnknownTools

\* The model argument of each case of the switch (lines 247, 259, 271).
ModelOf_AlwaysAsk(name) ==
    "sonar-pro"
ModelOf(name) ==
    CASE name = "perplexity_ask" -> "sonar-pro"
      [] name = "perplexity_research" -> "sonar-deep-research"
      [] name = "perplexity_reason" -> "sonar-reasoning-pro"
      [] OTHER -> "none"

\* Conversation messages as the client sent them; a field the client left
\* out or sent as a non-string is the piece MissingField.
MissingField == "<not a string>"
MsgU == [role |-> "user", content |-> "q1"]
MsgA == [role |-> "assistant", content |-> "a1"]
MsgNoContent == [role |-> "user", content |-> MissingField]
MsgNoRole == [role |-> MissingField, content |-> "q1"]

MessageLists == {<<>>, <<MsgU>>, <<MsgU, MsgA>>, <<MsgA, MsgU>>, <<MsgNoContent>>,
                 <<MsgU, MsgNoRole>>}

\* request.params.arguments: absent, or an object whose messages property is
\* absent, not an array, or an array.
NoArgs == [present |-> FALSE, kind |-> "undefined", items |-> <<>>]
ArgsInputs ==
    {NoArgs,
     [present |-> TRUE, kind |-> "undefined", items |-> <<>>],
     [present |-> TRUE, kind |-> "string", items |-> <<>>]}
    \cup {[present |-> TRUE, kind |-> "array", items |-> m] : m \in MessageLists}

ToolRequests == [name : ToolNameInputs, args : ArgsInputs]

ToolResult(text, isError) ==
    [content |-> <<[type |-> "text", text |-> text]>>, isError |-> isError]

\* The catch clause of the handler (lines 284-295).
CaughtResult_Generic(message) ==
    ToolResult(Str(<<"Error: ", "request failed">>), TRUE)
CaughtResult(message) ==
    ToolResult(Str(<<"Error: ">> \o message), TRUE)

\* The handler from its entry to its first await (lines 235-247, 253-259,
\* 265-271, 277-283): either it returns at once, or it calls
\* performChatCompletion(messages, model) and suspends.
NoCall == [model |-> "none", messages |-> <<>>]

CallToolStart(params) ==
    IF ~params.args.present
    THEN [await |-> FALSE, call |-> NoCall,
          result |-> CaughtResult(<<"No arguments provided">>)]
    ELSE IF params.name \in KnownTools
    THEN IF params.args.kind # "array"
         THEN [await |-> FALSE, call |-> NoCall,
               result |-> CaughtResult(<<"Invalid arguments for ", params.name,
                                         ": 'messages' must be an array">>)]
         ELSE [await |-> TRUE,
               call |-> [model |-> ModelOf(params.name), messages |-> params.args.items],
               result |-> ToolResult(Undefined, FALSE)]
    ELSE [await |-> FALSE, call |-> NoCall,
          result |-> ToolResult(Str(<<"Unknown tool: ", params.name>>), TRUE)]

\* ------------------------------------------------ the upstream completion API
\* What fetch() and the response can turn out to be.
NoCitations == [kind |-> "absent", items |-> <<>>]
CitationInputs ==
    {NoCitations,
     [kind |-> "array", items |-> <<>>],
     [kind |-> "array", items |-> <<"http://a">>],
     [kind |-> "array", items |-> <<"http://a", "http://b">>]}

\* data after response.json(): null, an object without choices, an object
\* whose first choice's message has no content, or the expected structure.
BodyInputs ==
    {[shape |-> "null", content |-> <<>>, citations |-> NoCitations],
     [shape |-> "no_choices", content |-> <<>>, citations |-> NoCitations]}
    \cup {[shape |-> "no_content", content |-> <<>>, citations |-> c] : c \in CitationInputs}
    \cup {[shape |-> "text", content |-> <<"Answer">>, citations |-> c] : c \in CitationInputs}

NoBody == [shape |-> "null", content |-> <<>>, citations |-> NoCitations]

NoResponse ==
    [net |-> "none", ok |-> FALSE, status |-> 0, textOk |-> FALSE, json |-> FALSE,
     body |-> NoBody]

UpstreamResponses ==
    {[net |-> "error", ok |-> FALSE, status |-> 0, textOk |-> FALSE, json |-> FALSE,
      body |-> NoBody]}
    \cup {[net |-> "ok", ok |-> FALSE, status |-> st, textOk |-> t, json |-> FALSE,
           body |-> NoBody] : st \in {401, 500}, t \in BOOLEAN}
    \cup {[net |-> "ok", ok |-> TRUE, status |-> 200, textOk |-> TRUE, json |-> FALSE,
           body |-> NoBody]}
    \cup {[net |-> "ok", ok |-> TRUE, status |-> 200, textOk |-> TRUE, json |-> TRUE,
           body |-> b] : b \in BodyInputs}

StatusText(st) ==
    CASE st = 401 -> "Unauthorized"
      [] st = 500 -> "Internal Server Error"
      [] OTHER -> "OK"

\* The forEach of lines 194-196 from index i on.
RECURSIVE CitationLines_ZeroBased(_, _)
CitationLines_ZeroBased(cs, i) ==
    IF i > Len(cs) THEN <<>>
    ELSE <<"[", ToString(i - 1), "] ", cs[i], "\n">> \o CitationLines_ZeroBased(cs, i + 1)
RECURSIVE CitationLines(_, _)
CitationLines(cs, i) ==
    IF i > Len(cs) THEN <<>>
    ELSE <<"[", ToString(i), "] ", cs[i], "\n">> \o CitationLines(cs, i + 1)

\* Lines 188-199: messageContent, with the citations block appended.
FormatContent(body) ==
    LET content == IF body.shape = "text" THEN Str(body.content) ELSE Undefined
    IN  IF body.citations.kind = "array" /\ Len(body.citations.items) > 0
        THEN Str(Show(content) \o <<"\n\nCitations:\n">>
                 \o CitationLines(body.citations.items, 1))
        ELSE content

Returned(v) == [thrown |-> FALSE, value |-> v, message |-> <<>>]
Thrown(m) == [thrown |-> TRUE, value |-> Undefined, message |-> m]

\* performChatCompletion once fetch has settled with resp (lines 153-199).
performChatCompletion(resp) ==
    IF resp.net = "error"
    THEN Thrown(<<"Network error while calling Perplexity API: ", "fetch failed">>)
    ELSE IF ~resp.ok
    THEN Thrown(<<"Perplexity API error: ", ToString(resp.status), " ",
                  StatusText(resp.status), "\n",
                  IF resp.textOk THEN "<body>" ELSE "Unable to parse error response">>)
    ELSE IF ~resp.json
    THEN Thrown(<<"Failed to parse JSON response from Perplexity API: ", "SyntaxError">>)
    ELSE IF resp.body.shape \in {"null", "no_choices"}
    THEN Thrown(<<"Cannot read properties of undefined">>)
    ELSE Returned(FormatContent(resp.body))

\* The handler after the await (lines 248-251, 260-263, 272-275, 284-295).
CallToolFinish(done) ==
    IF done.thrown THEN CaughtResult(done.message)
    ELSE ToolResult(done.value, FALSE)

\* ------------------------------------------------------------ HTTP surface
\* A response: the route, the sessionId the request carried (NoSessionId on
\* the routes that take none), the status, the body's text, and whether the
\* request reached a request handler.
NoHttp == [route |-> "none", x |-> NoSessionId, status |-> 0, body |-> "", handed |-> FALSE]
Http(route, x, status, body, handed) ==
    [route |-> route, x |-> x, status |-> status, body |-> body, handed |-> handed]

\* JSON-RPC bodies a client may post: not a JSON-RPC message, tools/list,
\* tools/call that suspends on the upstream call, tools/call answered at once.
ValidAsk ==
    [name |-> "perplexity_ask",
     args |-> [present |-> TRUE, kind |-> "array", items |-> <<MsgU>>]]
UnknownCall ==
    [name |-> "perplexity_search",
     args |-> [present |-> TRUE, kind |-> "array", items |-> <<MsgU>>]]
Payloads ==
    {[kind |-> "invalid", params |-> ValidAsk],
     [kind |-> "list", params |-> ValidAsk],
     [kind |-> "call", params |-> ValidAsk],
     [kind |-> "call", params |-> UnknownCall]}

\* A handler suspended at `await fetch(...)` (line 155) has returned control
\* to the event loop: the other callbacks run whatever requests are
\* outstanding.
EventLoopFree_BlockingFetch ==
    reqs = << >>
EventLoopFree ==
    TRUE

\* createMCPServer() + server.connect(transport) (lines 339-340): every /sse
\* request gets a Server of its own, bound to the transport of that request;
\* the handlers of that Server answer on that transport.
ServerTransport_Shared(n) ==
    nextId
ServerTransport(n) ==
    n

\* The SDK writing the result of a request that was posted with sessionId x
\* and arrived on transport n: transport.send() writes on the attached SSE
\* response, and throws "Not connected" (caught and reported by the SDK)
\* when there is none.  on is the transport written on, 0 for none.
NoWrite == [x |-> NoSessionId, tr |-> 0, st |-> "none", on |-> 0]
Deliver(x, n) ==
    LET target == ServerTransport(n)
    IN  IF target \in TransportNos /\ sse[target]
        THEN [x |-> x, tr |-> n, st |-> "sent", on |-> target]
        ELSE [x |-> x, tr |-> n, st |-> "lost", on |-> 0]

\* ------------------------------------------------------------------ Init
Init ==
    /\ proc = "running"
    /\ apiKey = "set"
    /\ listening = TRUE
    /\ nextId = 0
    /\ transports = << >>
    /\ res = [n \in TransportNos |-> "none"]
    /\ sse = [n \in TransportNos |-> FALSE]
    /\ sweep = IdleSweep
    /\ closeTried = {}
    /\ closeFailed = {}
    /\ reqs = << >>
    /\ http = NoHttp
    /\ wrote = NoWrite
    /\ hpc = "off"
    /\ hreq = ValidAsk
    /\ hcalls = << >>
    /\ hresp = NoResponse
    /\ hres = << >>

\* --------------------------------------------------------------- GET /health
\* Lines 315-322.
Health_SessionAware ==
    /\ Alive
    /\ EventLoopFree
    /\ http' = IF reqs = << >>
              THEN Http("health", NoSessionId, 200, "healthy", FALSE)
              ELSE Http("health", NoSessionId, 503, "busy", FALSE)
    /\ wrote' = NoWrite
    /\ UNCHANGED <<proc, nextId, transports, res, sse, sweep, closeTried, closeFailed,
                   reqs, toolVars, bootVars>>
Health ==
    /\ Alive
    /\ EventLoopFree
    /\ http' = Http("health", NoSessionId, 200, "healthy", FALSE)
    /\ wrote' = NoWrite
    /\ UNCHANGED <<proc, nextId, transports, res, sse, sweep, closeTried, closeFailed,
                   reqs, toolVars, bootVars>>

\* ------------------------------------------------------------------ GET /sse
\* Lines 325-349.  connect is what `await server.connect(transport)` does:
\* "ok"; "throw_early" (it throws before any header is written, so the catch
\* answers 500); "throw_late" (it throws after the headers went out, so the
\* catch writes nothing and the response stays as it is).
ConnectOutcomes == {"ok", "throw_early", "throw_late"}

OpenSse(connect) ==
    /\ Alive
    /\ EventLoopFree
    /\ nextId < MaxSessions
    /\ LET n == nextId + 1
           id == SessionIdOf(n)
       IN  /\ nextId' = n
           /\ transports' = Register(transports, id, n)
           /\ res' = [res EXCEPT ![n] = IF connect = "throw_early" THEN "ended" ELSE "open"]
           /\ sse' = [sse EXCEPT ![n] = (connect = "ok")]
           /\ http' = IF connect = "throw_early"
                     THEN Http("sse", NoSessionId, 500, "Failed to establish SSE connection", FALSE)
                     ELSE Http("sse", NoSessionId, 200, "event-stream", FALSE)
    /\ wrote' = NoWrite
    /\ UNCHANGED <<proc, sweep, closeTried, closeFailed, reqs, toolVars, bootVars>>

\* The 'close' event of the /sse response of transport n (client disconnect,
\* or the response has been ended): the listener of lines 333-336 deletes
\* the key transport.sessionId, the SDK's listener detaches the response.
ResClose(n) ==
    /\ Alive
    /\ EventLoopFree
    /\ res[n] \in {"open", "ended"}
    /\ res' = [res EXCEPT ![n] = "closed"]
    /\ sse' = [sse EXCEPT ![n] = FALSE]
    /\ transports' = Unregister(transports, SessionIdOf(n))
    /\ http' = NoHttp
    /\ wrote' = NoWrite
    /\ UNCHANGED <<proc, nextId, sweep, closeTried, closeFailed, reqs, toolVars, bootVars>>

\* ------------------------------------------------------------ POST /messages
\* Lines 352-374, with what transport.handlePostMessage does: no attached SSE
\* response -> it answers 500 and throws (caught at line 368, headers already
\* sent); a body that is no JSON-RPC message -> 400; otherwise 202 and the
\* message goes to the request handlers of the Server connected to it.
Suspends(p) ==
    p.kind = "call" /\ CallToolStart(p.params).await

\* An exception thrown inside the try of lines 366-373 is caught there: it
\* is logged, answered 500 unless the headers already went out, and goes no
\* further (an exception that left the async route handler would be an
\* unhandled rejection, which ends the process).
Escapes_NoCatch(thrown) ==
    thrown
Escapes(thrown) ==
    FALSE

Post(x, p) ==
    /\ Alive
    /\ EventLoopFree
    /\ IF x = NoSessionId
       THEN /\ http' = Http("messages", x, 400, "sessionId query parameter is required", FALSE)
            /\ wrote' = NoWrite
            /\ UNCHANGED <<reqs, proc>>
       ELSE IF Lookup(x) = "undefined"
       THEN /\ http' = Http("messages", x, 400, "No transport found for sessionId", FALSE)
            /\ wrote' = NoWrite
            /\ UNCHANGED <<reqs, proc>>
       ELSE IF Lookup(x) = "inherited"
       THEN \* transport.handlePostMessage is not a function: TypeError
            /\ http' = Http("messages", x, 500, "Failed to handle message", FALSE)
            /\ wrote' = NoWrite
            /\ proc' = IF Escapes(TRUE) THEN "crashed" ELSE proc
            /\ UNCHANGED reqs
       ELSE LET n == transports[x]
            IN  IF ~sse[n]
                THEN /\ http' = Http("messages", x, 500, "SSE connection not established", FALSE)
                     /\ wrote' = NoWrite
                     /\ proc' = IF Escapes(TRUE) THEN "crashed" ELSE proc
                     /\ UNCHANGED reqs
                ELSE IF p.kind = "invalid"
                THEN /\ http' = Http("messages", x, 400, "Invalid message", FALSE)
                     /\ wrote' = NoWrite
                     /\ UNCHANGED <<reqs, proc>>
                ELSE IF Suspends(p)
                THEN /\ Len(reqs) < MaxRequests
                     /\ http' = Http("messages", x, 202, "Accepted", TRUE)
                     /\ reqs' = Append(reqs, [x |-> x, tr |-> n])
                     /\ wrote' = NoWrite
                     /\ proc' = proc
                ELSE /\ http' = Http("messages", x, 202, "Accepted", TRUE)
                     /\ wrote' = Deliver(x, n)
                     /\ UNCHANGED <<reqs, proc>>
    /\ UNCHANGED <<nextId, transports, res, sse, sweep, closeTried, closeFailed, toolVars, bootVars>>

\* fetch() settles for the i-th suspended request and its handler runs to
\* its return (lines 167-199, 248-251, 284-295); the SDK then writes the
\* result.
Without(q, i) ==
    [j \in 1..(Len(q) - 1) |-> IF j < i THEN q[j] ELSE q[j + 1]]

UpstreamReturn(i) ==
    /\ Alive
    /\ EventLoopFree
    /\ i \in 1..Len(reqs)
    /\ reqs' = Without(reqs, i)
    /\ wrote' = Deliver(reqs[i].x, reqs[i].tr)
    /\ http' = NoHttp
    /\ UNCHANGED <<proc, nextId, transports, res, sse, sweep, closeTried, closeFailed,
                   toolVars, bootVars>>

\* ------------------------------------------------------------------ SIGINT
\* Lines 395-411.  `for (const sessionId in transports)` visits the keys the
\* object had when the loop began, in insertion order, skipping a key deleted
\* before its turn; a key added meanwhile is not visited.
RECURSIVE KeysInOrder(_)
KeysInOrder(S) ==
    IF S = {} THEN << >>
    ELSE LET k == CHOOSE k \in S : \A j \in S : k <= j
         IN  <<k>> \o KeysInOrder(S \ {k})

RECURSIVE SkipDeleted(_, _)
SkipDeleted(keys, reg) ==
    IF keys = << >> THEN << >>
    ELSE IF Head(keys) \in DOMAIN reg THEN keys
    ELSE SkipDeleted(Tail(keys), reg)

\* What `transports[sessionId].close()` can do: "ok" (the SDK ends the
\* attached response, detaches it and resolves), "throw_after" (it does so
\* and then rejects), "throw_before" (it rejects having done nothing).
CloseOutcomes == {"ok", "throw_after", "throw_before"}

\* The loop from the top of an iteration, the registry being reg and keys
\* the keys still to visit, up to the next `await ...close()` (line 402) or,
\* with no key left, to process.exit(0) (line 410).
SweepFrom(reg, keys, snap) ==
    LET live == SkipDeleted(keys, reg)
    IN  IF live = << >>
        THEN /\ proc' = "exited"
             /\ sweep' = [pc |-> "done", keys |-> << >>, cur |-> NoSessionId,
                          outcome |-> "none", snap |-> snap]
             /\ transports' = reg
             /\ UNCHANGED <<res, sse, closeTried, closeFailed>>
        ELSE \E o \in CloseOutcomes :
             LET k == Head(live)
                 n == reg[k]
                 acts == o # "throw_before"
             IN  /\ proc' = proc
                 /\ sweep' = [pc |-> "awaiting", keys |-> Tail(live), cur |-> k,
                              outcome |-> o, snap |-> snap]
                 /\ transports' = reg
                 /\ res' = [res EXCEPT ![n] = IF acts /\ sse[n] /\ @ = "open"
                                                 THEN "ended" ELSE @]
                 /\ sse' = [sse EXCEPT ![n] = IF acts THEN FALSE ELSE @]
                 /\ closeTried' = closeTried \cup {k}
                 /\ closeFailed' = IF o = "ok" THEN closeFailed ELSE closeFailed \cup {k}

\* The try/catch of lines 400-406 is inside the loop body: after a close()
\* that rejected, the error is logged and the loop goes on with the keys
\* that are left.
AfterCatch_Abort(keys) ==
    << >>
AfterCatch(keys) ==
    keys

\* The signal arrives: the handler starts and runs to its first await.
Sigint ==
    /\ Alive
    /\ EventLoopFree
    /\ sweep.pc = "idle"
    /\ SweepFrom(transports, KeysInOrder(DOMAIN transports), DOMAIN transports)
    /\ http' = NoHttp
    /\ wrote' = NoWrite
    /\ UNCHANGED <<nextId, reqs, toolVars, bootVars>>

\* The awaited close() has settled: line 403 after a resolve, the catch of
\* lines 404-406 after a reject, then the next iteration.
SweepResume ==
    /\ Alive
    /\ EventLoopFree
    /\ sweep.pc = "awaiting"
    /\ SweepFrom(IF sweep.outcome = "ok" THEN Unregister(transports, sweep.cur)
                 ELSE transports,
                 IF sweep.outcome = "ok" THEN sweep.keys ELSE AfterCatch(sweep.keys),
                 sweep.snap)
    /\ http' = NoHttp
    /\ wrote' = NoWrite
    /\ UNCHANGED <<nextId, reqs, toolVars, bootVars>>

Next ==
    \/ Health
    \/ \E c \in ConnectOutcomes : OpenSse(c)
    \/ \E n \in TransportNos : ResClose(n)
    \/ \E x \in PostIds, p \in Payloads : Post(x, p)
    \/ \E i \in 1..MaxRequests : UpstreamReturn(i)
    \/ Sigint
    \/ SweepResume

Spec == Init /\ [][Next]_vars

\* ------------------------------------------------------------ process start
\* The evaluation of the module, one synchronous run: the check of lines
\* 124-128, the construction of the app and the registry (lines 302-312), the
\* registration of the routes and of the SIGINT handler, and startServer()
\* (lines 379-392, 414).
KeyInputs == {"unset", "empty", "set"}

\* `!PERPLEXITY_API_KEY` (line 125): undefined and "" are falsy.
MissingKey_Never(k) ==
    FALSE
MissingKey(k) ==
    k \in {"unset", "empty"}

\* app.listen(PORT, ...) returns, or throws (a port out of range), which the
\* catch of lines 388-391 answers with process.exit(1).
ListenOutcomes == {"ok", "throw"}

InitStart ==
    /\ proc = "loading"
    /\ apiKey \in KeyInputs
    /\ listening = FALSE
    /\ nextId = 0
    /\ transports = << >>
    /\ res = [n \in TransportNos |-> "none"]
    /\ sse = [n \in TransportNos |-> FALSE]
    /\ sweep = IdleSweep
    /\ closeTried = {}
    /\ closeFailed = {}
    /\ reqs = << >>
    /\ http = NoHttp
    /\ wrote = NoWrite
    /\ hpc = "off"
    /\ hreq = ValidAsk
    /\ hcalls = << >>
    /\ hresp = NoResponse
    /\ hres = << >>

Startup(listen) ==
    /\ proc = "loading"
    /\ IF MissingKey(apiKey)
       THEN proc' = "exit1" /\ listening' = FALSE
       ELSE IF listen = "throw"
       THEN proc' = "exit1" /\ listening' = FALSE
       ELSE proc' = "running" /\ listening' = TRUE
    /\ UNCHANGED <<apiKey, nextId, transports, res, sse, sweep, closeTried, closeFailed,
                   reqs, http, wrote, toolVars>>

NextStart ==
    \/ \E l \in ListenOutcomes : Startup(l)
    \/ Next

SpecStart == InitStart /\ [][NextStart]_vars
\* ------------------------------------------- one call-tool request, on its own
\* The request handler of lines 234-296 run on one request.params drawn from
\* ToolRequests, the upstream call settling with any of UpstreamResponses.
InitTool ==
    /\ proc = "running"
    /\ apiKey = "set"
    /\ listening = TRUE
    /\ nextId = 0
    /\ transports = << >>
    /\ res = [n \in TransportNos |-> "none"]
    /\ sse = [n \in TransportNos |-> FALSE]
    /\ sweep = IdleSweep
    /\ closeTried = {}
    /\ closeFailed = {}
    /\ reqs = << >>
    /\ http = NoHttp
    /\ wrote = NoWrite
    /\ hpc = "start"
    /\ hreq \in ToolRequests
    /\ hcalls = << >>
    /\ hresp = NoResponse
    /\ hres = << >>

\* The handler returns before any await.
HandlerReturn ==
    /\ hpc = "start"
    /\ ~CallToolStart(hreq).await
    /\ hres' = Append(hres, CallToolStart(hreq).result)
    /\ hpc' = "done"
    /\ UNCHANGED <<sessVars, bootVars, hreq, hcalls, hresp>>

\* The handler calls performChatCompletion, which calls fetch and suspends.
HandlerCall ==
    /\ hpc = "start"
    /\ CallToolStart(hreq).await
    /\ hcalls' = Append(hcalls, CallToolStart(hreq).call)
    /\ hpc' = "awaiting"
    /\ UNCHANGED <<sessVars, bootVars, hreq, hresp, hres>>

\* fetch settles with resp; the handler runs to its return.
HandlerResume(resp) ==
    /\ hpc = "awaiting"
    /\ hresp' = resp
    /\ hres' = Append(hres, CallToolFinish(performChatCompletion(resp)))
    /\ hpc' = "done"
    /\ UNCHANGED <<sessVars, bootVars, hreq, hcalls>>

NextTool ==
    \/ HandlerReturn
    \/ HandlerCall
    \/ \E resp \in UpstreamResponses : HandlerResume(resp)

SpecTool == InitTool /\ [][NextTool]_vars
\* ======================================================================
\* Properties
\* ======================================================================

\* C1 (as claimed): a POST /messages whose sessionId is absent, or is not a
\* key of the registry, is answered 400, reaches no request handler, does not
\* end the process and changes neither the registry nor any session.
C1_UnknownSessionIs400 ==
    [][\A x \in PostIds :
         (x \notin DOMAIN transports /\ \E p \in Payloads : Post(x, p))
         => /\ http'.status = 400
            /\ ~http'.handed
            /\ proc' = "running"
            /\ UNCHANGED <<transports, res, sse, reqs>>]_vars
StreamOpen(n) == sse[n] /\ res[n] = "open"

\* C3: an identifier is registered from the opening of its /sse stream until
\* the stream closes.  An attached stream is registered; once the 'close'
\* event of a stream has run, its identifier is not; a successful explicit
\* close in the shutdown sweep removes the entry; and closing a session that
\* is not registered leaves the registry as it was.  (A step opens a session
\* when it constructs a transport, closes one when it sets its response to
\* "closed", and resumes the sweep when it changes an awaiting sweep.)
C3_RegisteredWhileOpen ==
    /\ [](\A n \in TransportNos :
            /\ StreamOpen(n) =>
                 SessionIdOf(n) \in DOMAIN transports /\ transports[SessionIdOf(n)] = n
            /\ res[n] = "closed" => SessionIdOf(n) \notin DOMAIN transports)
    /\ [][/\ nextId' # nextId => SessionIdOf(nextId') \in DOMAIN transports'
          /\ \A n \in TransportNos :
               (res[n] # "closed" /\ res'[n] = "closed") =>
                 /\ SessionIdOf(n) \notin DOMAIN transports'
                 /\ SessionIdOf(n) \notin DOMAIN transports => transports' = transports
          /\ (sweep.pc = "awaiting" /\ sweep' # sweep /\ sweep.outcome = "ok")
               => sweep.cur \notin DOMAIN transports'
         ]_vars

\* C3 witness: a session was closed twice (by the sweep, which has moved on
\* to another session, and by the 'close' event of its stream), the second
\* close finding nothing to remove, while another session is registered.
C3_Witness ==
    \E n \in TransportNos :
        /\ res[n] = "closed"
        /\ SessionIdOf(n) \in closeTried \ closeFailed
        /\ sweep.pc = "awaiting" /\ sweep.cur # SessionIdOf(n)
        /\ DOMAIN transports # {}

\* C4 (as claimed): once the SIGINT handler has started, no session is
\* registered: the registry holds only sessions registered when it started.
C4_NoOpenAfterShutdown ==
    sweep.pc # "idle" => DOMAIN transports \subseteq sweep.snap

\* C5 (as claimed): at process exit no session stream is still open, and the
\* registry holds no entry whose close succeeded.  The sweep being best
\* effort, a stream whose close was attempted and failed is not counted.
C5_AllClosedAtExit ==
    proc = "exited" =>
        /\ \A n \in 1..nextId : StreamOpen(n) => SessionIdOf(n) \in closeFailed
        /\ \A k \in DOMAIN transports : k \notin closeTried \ closeFailed
\* A step is a POST /messages when it writes a response on that route, and
\* the return of a suspended handler when it writes a result and no HTTP
\* response.
PostStep == http'.route = "messages"
WriteStep == http'.route = "none" /\ wrote'.st # "none"

C7_ResultOnOwnStream ==
    /\ [](/\ \A i \in 1..Len(reqs) : SessionIdOf(reqs[i].tr) = reqs[i].x
          /\ wrote.st = "sent" => wrote.on = wrote.tr /\ SessionIdOf(wrote.on) = wrote.x
          /\ wrote.st # "sent" => wrote.on = 0)
    /\ [][/\ WriteStep =>
               /\ \E i \in 1..Len(reqs) : wrote'.tr = reqs[i].tr /\ wrote'.x = reqs[i].x
               /\ ~sse[wrote'.tr] => wrote'.on = 0
          /\ (PostStep /\ wrote'.st # "none") =>
               wrote'.x = http'.x /\ wrote'.tr = transports[http'.x]
         ]_vars

\* C7 witness: a result has just been dropped because its session's stream
\* had closed, while a session opened later has its stream attached.
C7_Witness ==
    /\ wrote.st = "lost"
    /\ \E n \in TransportNos : n > wrote.tr /\ StreamOpen(n)

\* C8: while a request is suspended on the upstream call, the other
\* callbacks stay enabled: /health answers, a session can be opened (up to
\* MaxSessions), every open stream can close, every POST is served (one that
\* suspends too: up to MaxRequests suspended at once), and any suspended
\* request can complete.
C8_UpstreamSuspendsOnlyItsRequest ==
    (Alive /\ reqs # << >>) =>
        /\ ENABLED Health
        /\ nextId < MaxSessions => \A c \in ConnectOutcomes : ENABLED OpenSse(c)
        /\ \A n \in TransportNos : res[n] \in {"open", "ended"} => ENABLED ResClose(n)
        /\ \A x \in PostIds, p \in Payloads :
             (Len(reqs) < MaxRequests \/ ~Suspends(p)) => ENABLED Post(x, p)
        /\ \A j \in 1..Len(reqs) : ENABLED UpstreamReturn(j)

\* C8 witness: a request is suspended on the upstream call, and a request on
\* another session has just been dispatched and answered on its stream.
C8_Witness ==
    \E i \in 1..Len(reqs) :
        /\ wrote.st = "sent"
        /\ http.status = 202
        /\ wrote.tr # reqs[i].tr
\* A result of the handler is well formed: one text item whose text is a
\* string, and a boolean isError.
WellFormed(r) ==
    /\ Len(r.content) = 1
    /\ r.content[1].type = "text"
    /\ r.content[1].text.t = "string"
    /\ r.isError \in BOOLEAN

\* The upstream call was made once and succeeded in full.
UpstreamSucceeded ==
    /\ Len(hcalls) = 1
    /\ hresp.net = "ok" /\ hresp.ok /\ hresp.json
    /\ hresp.body.shape = "text"

\* C9 (as claimed): every call-tool request the handler has finished has
\* produced exactly one result, well formed (one text item whose text is a
\* string, and isError); isError is false only when the upstream call
\* succeeded in full (reached, success status, body parsed, the expected
\* structure), the text then beginning with the whole content of the first
\* choice; otherwise isError is true.
C9_OneWellFormedResult ==
    hpc = "done" =>
        /\ Len(hres) = 1
        /\ WellFormed(hres[1])
        /\ ~hres[1].isError =>
             /\ UpstreamSucceeded
             /\ Len(hres[1].content[1].text.s) >= Len(hresp.body.content)
             /\ SubSeq(hres[1].content[1].text.s, 1, Len(hresp.body.content))
                  = hresp.body.content
        /\ ~UpstreamSucceeded => hres[1].isError

\* The string v has the piece among its pieces.
Contains(v, piece) ==
    v.t = "string" /\ \E i \in 1..Len(v.s) : v.s[i] = piece

\* C10 (as claimed): a call-tool request naming none of the three tools
\* returns isError: true with a text that contains the name, and makes no
\* upstream call, whatever its arguments are (absent included).
C10_UnknownToolNamed ==
    (hpc = "done" /\ hreq.name \notin KnownTools) =>
        /\ Len(hres) = 1
        /\ hres[1].isError
        /\ Contains(hres[1].content[1].text, hreq.name)
        /\ hcalls = << >>

\* The characters of a string value, its pieces put end to end.
RECURSIVE JoinPieces(_)
JoinPieces(ps) ==
    IF ps = << >> THEN "" ELSE Head(ps) \o JoinPieces(Tail(ps))

TextOf(v) ==
    IF v.t = "string" THEN JoinPieces(v.s) ELSE "undefined"

\* The word w occurs in the characters s.
HasSubstring(s, w) ==
    \E i \in 1..(Len(s) - Len(w) + 1) : SubSeq(s, i, i + Len(w) - 1) = w

\* The request carries no list in messages: arguments absent, messages
\* absent, or messages not an array.
MessagesNotAList ==
    ~hreq.args.present \/ hreq.args.kind # "array"

\* C11 (as claimed): a call-tool request to one of the three tools whose
\* messages field is missing (the whole arguments object missing included)
\* or is not a list returns isError: true with a text that names the
\* messages field, and the upstream API is never called for it.
C11_MissingMessagesNamed ==
    (hpc # "start" /\ hreq.name \in KnownTools /\ MessagesNotAList) =>
        /\ hcalls = << >>
        /\ hpc = "done"
        /\ Len(hres) = 1
        /\ hres[1].isError
        /\ HasSubstring(TextOf(hres[1].content[1].text), "messages")

\* A conversation message is a well-formed {role, content} pair.
WellFormedPair(m) ==
    m.role # MissingField /\ m.content # MissingField

\* The request carries a list of well-formed pairs (the empty list included).
ValidMessages ==
    /\ hreq.args.present
    /\ hreq.args.kind = "array"
    /\ \A i \in 1..Len(hreq.args.items) : WellFormedPair(hreq.args.items[i])

\* C12: for a valid {role, content} list sent to one of the three tools, the
\* upstream API is called exactly once, from the moment the handler suspends
\* to after it has returned, however the call settles (no retry), with
\* exactly that list and with the model of the tool: perplexity_ask ->
\* sonar-pro, perplexity_research -> sonar-deep-research, perplexity_reason
\* -> sonar-reasoning-pro.
C12_CalledOnceWithListAndModel ==
    (hpc # "start" /\ hreq.name \in KnownTools /\ ValidMessages) =>
        /\ Len(hcalls) = 1
        /\ hcalls[1].messages = hreq.args.items
        /\ hreq.name = "perplexity_ask" => hcalls[1].model = "sonar-pro"
        /\ hreq.name = "perplexity_research" => hcalls[1].model = "sonar-deep-research"
        /\ hreq.name = "perplexity_reason" => hcalls[1].model = "sonar-reasoning-pro"

\* C12 witness: perplexity_reason was called with a two-message list, the
\* upstream call failed on the network, and the handler has returned having
\* made the one call.
C12_Witness ==
    /\ hpc = "done"
    /\ hreq.name = "perplexity_reason"
    /\ hreq.args.items = <<MsgU, MsgA>>
    /\ hresp.net = "error"
    /\ hcalls = <<[model |-> "sonar-reasoning-pro", messages |-> <<MsgU, MsgA>>]>>

\* C13 (as claimed): a call-tool request to one of the three tools whose
\* messages is a list with an element that is not a well-formed {role,
\* content} pair is rejected: the upstream API is never called for it, and
\* the result is error-flagged with a text naming the tool and the messages
\* field.
C13_MalformedElementRejected ==
    (hpc # "start" /\ hreq.name \in KnownTools /\ hreq.args.present
       /\ hreq.args.kind = "array" /\ ~ValidMessages) =>
        /\ hcalls = << >>
        /\ hpc = "done"
        /\ Len(hres) = 1
        /\ hres[1].isError
        /\ HasSubstring(TextOf(hres[1].content[1].text), hreq.name)
        /\ HasSubstring(TextOf(hres[1].content[1].text), "messages")

\* The lines "[1] c1\n" ... "[n] cn\n" for the first n citations of cs.
RECURSIVE NumberedLines(_, _)
NumberedLines(cs, n) ==
    IF n = 0 THEN ""
    ELSE NumberedLines(cs, n - 1) \o "[" \o ToString(n) \o "] " \o cs[n] \o "\n"

\* C14: when the upstream call succeeded with a text, the result is not
\* error-flagged and its text is the first choice's text, followed, when
\* the response carries a non-empty citation list c1..cn, by
\* "\n\nCitations:\n" and the lines "[i] ci\n" for i = 1..n in order, and
\* nothing else; with no citation list or an empty one it is the text
\* unchanged.  For "Answer" with citations http://a, http://b it is
\* "Answer\n\nCitations:\n[1] http://a\n[2] http://b\n".
C14_CitationsAppended ==
    (hpc = "done" /\ UpstreamSucceeded) =>
        LET text == TextOf(hres[1].content[1].text)
            answer == JoinPieces(hresp.body.content)
            cs == hresp.body.citations.items
        IN  /\ ~hres[1].isError
            /\ hres[1].content[1].text.t = "string"
            /\ text = IF hresp.body.citations.kind = "array" /\ Len(cs) > 0
                      THEN answer \o "\n\nCitations:\n" \o NumberedLines(cs, Len(cs))
                      ELSE answer
            /\ (answer = "Answer" /\ cs = <<"http://a", "http://b">>) =>
                   text = "Answer\n\nCitations:\n[1] http://a\n[2] http://b\n"

\* C14 witness: the upstream answered "Answer" with the citations http://a
\* and http://b, and the handler has returned its formatted result.
C14_Witness ==
    /\ hpc = "done"
    /\ UpstreamSucceeded
    /\ hresp.body.content = <<"Answer">>
    /\ hresp.body.citations = [kind |-> "array", items |-> <<"http://a", "http://b">>]
    /\ Len(hres) = 1

\* The upstream API was reached and answered with a non-success status.
UpstreamRefused ==
    Len(hcalls) = 1 /\ hresp.net = "ok" /\ ~hresp.ok

\* C15: when the upstream API answers a call-tool request with a
\* non-success HTTP status, the handler's one result is isError: true and
\* its text contains the status code in digits, whether or not the body of
\* the error response could be read.
C15_StatusCodeInError ==
    (hpc = "done" /\ UpstreamRefused) =>
        /\ Len(hres) = 1
        /\ hres[1].isError
        /\ hresp.status = 401 => HasSubstring(TextOf(hres[1].content[1].text), "401")
        /\ hresp.status = 500 => HasSubstring(TextOf(hres[1].content[1].text), "500")
        /\ hresp.status \in {401, 500}

\* C15 witness: the upstream answered 500 with a body that could not be
\* read, and the handler has returned.
C15_Witness ==
    /\ hpc = "done"
    /\ UpstreamRefused
    /\ hresp.status = 500
    /\ ~hresp.textOk
    /\ Len(hres) = 1

\* C16: when PERPLEXITY_API_KEY is not set at process start, the process
\* never calls listen and is never in any state but loading or exited with
\* status 1: no /health, /sse or /messages request is ever answered, no
\* result is ever written, no transport is constructed and no session is
\* registered.
C16_NoKeyNoServer ==
    apiKey = "unset" =>
        /\ proc \in {"loading", "exit1"}
        /\ ~listening
        /\ http = NoHttp
        /\ wrote = NoWrite
        /\ nextId = 0
        /\ transports = << >>
        /\ reqs = << >>

\* C16 witness: the process was started without the key and has exited
\* with status 1.
C16_Witness ==
    apiKey = "unset" /\ proc = "exit1"

\* C17: while the server runs, GET /health can be answered in every session
\* state (no session, open sessions, requests suspended on the upstream
\* call), and every answer to it is 200 with status "healthy", reaches no
\* request handler, writes on no stream and changes neither the registry
\* nor any session's stream nor any suspended request.
C17_HealthAlwaysHealthy ==
    /\ [](Alive => ENABLED Health)
    /\ [][http'.route = "health" =>
            /\ http' = Http("health", NoSessionId, 200, "healthy", FALSE)
            /\ wrote' = NoWrite
            /\ UNCHANGED <<proc, nextId, transports, res, sse, reqs, sweep>>]_vars

\* C17 witness: /health has just been answered 200 while a session was open
\* and a request was suspended on the upstream call.
C17_Witness ==
    /\ http.route = "health"
    /\ http.status = 200
    /\ reqs # << >>
    /\ \E n \in TransportNos : StreamOpen(n)

\* C18: a close() that fails in the shutdown sweep neither ends the process
\* abnormally nor cuts the sweep short: the process leaves the sweep only by
\* process.exit(0), and when it has exited, every session that was
\* registered when the sweep began has had its close() called, except one
\* whose stream closed by itself (and so left the registry) before its turn.
C18_SweepBestEffort ==
    /\ sweep.pc # "idle" => proc \in {"running", "exited"}
    /\ closeFailed \subseteq closeTried
    /\ proc = "exited" =>
         \A k \in sweep.snap :
             \/ k \in closeTried
             \/ \E n \in TransportNos : SessionIdOf(n) = k /\ res[n] = "closed"

\* C18 witness: the process has exited after a sweep in which the close()
\* of one session failed and the close() of a session visited after it was
\* called and succeeded.
C18_Witness ==
    /\ proc = "exited"
    /\ \E f \in closeFailed, k \in closeTried \ closeFailed : k > f

\* C19 (as claimed): when server.connect() throws in the /sse handler, the
\* identifier registered for that request is no longer in the registry when
\* the handler is done, so no later POST /messages finds it.
C19_FailedOpenUnregistered ==
    [][(nextId' # nextId /\ ~sse'[nextId']) =>
           SessionIdOf(nextId') \notin DOMAIN transports']_vars
====
